---------------------------- MODULE Spec2Model ----------------------------
(***************************************************************************)
(* Campaign dispatch engine of email_shooter (src/mailer.py), together     *)
(* with its callers: the web route (src/app.py), the CLI (src/cli.py) and  *)
(* the scheduled-job wrapper (src/scheduler.py).                           *)
(*                                                                         *)
(* The store is the relational database behind Flask-SQLAlchemy.  Every    *)
(* caller runs in its own application context and so owns its own scoped   *)
(* session: a private copy of the rows it loaded, a set of changed         *)
(* attributes, and a list of added rows.  Nothing a session changed is     *)
(* visible to another session before db.session.commit(); a commit writes  *)
(* the changed attributes (and only those) and the added rows as one       *)
(* transaction and expires every loaded object, so the next attribute      *)
(* read loads the row again.  Steps of different workers interleave at     *)
(* store operations and provider calls.                                    *)
(***************************************************************************)
EXTENDS Integers, Sequences, FiniteSets, Bags, TLC

(* Bounds of the model. *)
MaxSubs == 2
MaxBatchSize == 2
(* Active subscribers when one caller sends alone. *)
MaxSoloSubs == 4
MaxEmailLen == 3

(* subscribers[:3] in test mode. *)
TestLimit == 3

(* The flows of control that call into the engine at the same time: a     *)
(* Flask request thread or CLI process, and an APScheduler pool thread.    *)
Workers == {"manual", "sched"}

CampaignIds == {1}

NULL == "NULL"
NoId == 0

Sendable == {"draft", "scheduled"}
Finished == {"completed", "completed_with_errors", "failed"}
Fields == {"status", "sent_at", "total_recipients", "emails_sent", "emails_failed"}

Statuses == Sendable \cup {"sending"} \cup Finished

VARIABLES
    campaigns,     \* table campaigns: committed rows
    email_logs,    \* table email_logs: bag of committed rows
    subscribers,   \* ids of the rows of table subscribers with is_active
    inactive,      \* ids of the rows of table subscribers without is_active
    mail,          \* the subscriber create_email_message works on, and its output
    batch_size,    \* Config.EMAIL_BATCH_SIZE
    api_key,       \* whether Config carries the key EmailSender.__init__ reads
    jobs,          \* campaigns with a pending job 'campaign_<id>' (date trigger)
    cancelled,     \* what cancel_scheduled_campaign returned last, per campaign
    pc,            \* each worker's position
    sess,          \* each worker's db.session
    inv            \* each worker's call: arguments, locals, result, history

vars == <<campaigns, email_logs, subscribers, inactive, mail, batch_size, api_key, jobs, cancelled,
          pc, sess, inv>>

Min(a, b) == IF a < b THEN a ELSE b

(* No message is being composed. *)
NoMail ==
    [step |-> "none", input |-> <<>>, email |-> <<>>, has_name |-> FALSE,
     name |-> <<>>, context_name |-> <<>>, html |-> <<>>]

(* ------------------------------ rows ---------------------------------- *)

(* Column defaults of Campaign: status 'draft', counters 0, sent_at NULL. *)
Campaign(st) ==
    [status |-> st, sent_at |-> NULL, total_recipients |-> 0,
     emails_sent |-> 0, emails_failed |-> 0]

(* An object whose attributes are all expired carries no readable value. *)
Blank == [status |-> NULL, sent_at |-> NULL, total_recipients |-> 0,
          emails_sent |-> 0, emails_failed |-> 0]

(* The place of a row that db.session.delete removed. *)
NoRow == [Blank EXCEPT !.status = "absent"]

(* Log rows that all name the first campaign; C18 must tell them from the *)
(* real ones.                                                              *)
EmailLog_OfFirstCampaign(sid, cid, st) ==
    [subscriber_id |-> sid, campaign_id |-> 1, status |-> st,
     sendgrid_message_id |-> IF st = "sent" THEN "mid" ELSE NULL,
     error_message |-> IF st = "failed" THEN "err" ELSE NULL]

(* EmailLog(...) as built on the success and on the failure path. *)
EmailLog(sid, cid, st) ==
    [subscriber_id |-> sid, campaign_id |-> cid, status |-> st,
     sendgrid_message_id |-> IF st = "sent" THEN "mid" ELSE NULL,
     error_message |-> IF st = "failed" THEN "err" ELSE NULL]

(* Subscriber.query.filter_by(is_active=True).all(): rows in key order. *)
RECURSIVE Ascending(_)
Ascending(S) ==
    IF S = {} THEN <<>>
    ELSE LET m == CHOOSE x \in S : \A y \in S : x <= y
         IN  <<m>> \o Ascending(S \ {m})

ActiveSubscribers == Ascending(subscribers)

(* ---------------------------- db.session ------------------------------ *)

NewSession ==
    [campaign |-> Blank, loaded |-> FALSE, expired |-> FALSE,
     dirty |-> {}, new |-> <<>>]

(* Campaign.query.get(id) on a session that has not loaded the row. *)
Loaded(s, row) ==
    [s EXCEPT !.campaign = row, !.loaded = TRUE, !.expired = FALSE]

(* Reading an attribute of an expired object loads every attribute that    *)
(* has no pending change. *)
Refreshed(s, row) ==
    IF s.expired
    THEN [s EXCEPT !.campaign = [f \in Fields |->
                        IF f \in s.dirty THEN s.campaign[f] ELSE row[f]],
                   !.expired = FALSE]
    ELSE s

(* campaign.<f> = v: no load, the attribute becomes a pending change. *)
SetAttr(s, f, v) ==
    [s EXCEPT !.campaign[f] = v, !.dirty = @ \cup {f}]

(* db.session.add(email_log) *)
Added(s, row) == [s EXCEPT !.new = Append(@, row)]

(* A store without the NOT NULL constraints; C12 and C16 must tell it from *)
(* the real one.                                                           *)
IntegrityOk_Unconstrained(s) == TRUE

(* NOT NULL on email_logs.subscriber_id and email_logs.campaign_id. *)
IntegrityOk(s) ==
    \A k \in 1..Len(s.new) :
        s.new[k].subscriber_id # NoId /\ s.new[k].campaign_id # NoId

(* A store that accepts an UPDATE matching no row; C16 must tell it from   *)
(* the real one.                                                           *)
RowMatched_Unchecked(s, row) == TRUE

(* UPDATE campaigns ... WHERE id = c must match one row: the commit of a   *)
(* changed campaign whose row is gone raises StaleDataError.               *)
RowMatched(s, row) == s.dirty = {} \/ row # NoRow

(* A commit that leaves the campaign row as it was; C25 must tell it from  *)
(* the real one.                                                           *)
CommittedRow_Unwritten(s, row) == row

(* What a successful commit of session s writes to the row of campaign c:  *)
(* UPDATE campaigns SET <changed attributes> WHERE id = c.                 *)
CommittedRow(s, row) ==
    [f \in Fields |-> IF f \in s.dirty THEN s.campaign[f] ELSE row[f]]

SeqToBag(q) ==
    [r \in {q[k] : k \in 1..Len(q)} |-> Cardinality({k \in 1..Len(q) : q[k] = r})]

CommittedLogs(s, logs) == logs (+) SeqToBag(s.new)

(* A commit after which the added rows are still pending; C21 must tell it *)
(* from the real one.                                                      *)
Clean_KeepsRows(s) ==
    [s EXCEPT !.campaign = Blank, !.expired = TRUE]

(* After commit every object is expired (expire_on_commit); after the      *)
(* rollback of a failed commit the pending changes are gone as well.       *)
Clean(s) ==
    [s EXCEPT !.campaign = Blank, !.expired = TRUE, !.dirty = {}, !.new = <<>>]

(* ------------------------------- calls -------------------------------- *)

NoResult == [success |-> FALSE, error |-> "none", sent |-> 0, failed |-> 0, total |-> 0]
Failure(e) == [NoResult EXCEPT !.error = e]
Success(s, f, t) == [success |-> TRUE, error |-> NULL, sent |-> s, failed |-> f, total |-> t]

NoCall ==
    [wrapped |-> FALSE, cid |-> NoId, test_mode |-> FALSE, engine |-> "mailer",
     subs |-> <<>>, i |-> 0, pos |-> 0, sent_count |-> 0, failed_count |-> 0,
     result |-> NoResult,
     \* history of the call, read by the properties only
     started |-> FALSE, wrote |-> FALSE, store_error |-> FALSE,
     attempts |-> <<>>, last |-> "none", called |-> FALSE, at_load |-> {},
     waits |-> 0, pauses |-> 0]

Init ==
    /\ campaigns \in [CampaignIds -> {Campaign("draft"), Campaign("scheduled")}]
    /\ email_logs = EmptyBag
    /\ \E n \in 0..MaxSubs : subscribers = 1..n
    /\ inactive = {}
    /\ mail = NoMail
    /\ batch_size \in 1..MaxBatchSize
    /\ api_key \in BOOLEAN
    /\ jobs = {c \in CampaignIds : campaigns[c].status = "scheduled"}
    /\ cancelled = [c \in CampaignIds |-> "never"]
    /\ pc = [w \in Workers |-> "idle"]
    /\ sess = [w \in Workers |-> NewSession]
    /\ inv = [w \in Workers |-> NoCall]

(* An exception leaves send_campaign_email: the route flashes it, the CLI  *)
(* prints it, the wrapper's except clause handles it.                      *)
RaisedTo(wrapped) == IF wrapped THEN "job_except" ELSE "done"

(* The locals of send_campaign are dead once an exception left its try     *)
(* block: neither handler reads them.                                      *)
Unwound(call) ==
    [call EXCEPT !.subs = <<>>, !.i = 0, !.pos = 0, !.sent_count = 0,
                 !.failed_count = 0, !.attempts = <<>>, !.last = "none",
                 !.called = FALSE, !.at_load = {},
                 !.waits = 0, !.pauses = 0, !.store_error = TRUE]

(***************************************************************************)
(* A caller loads the campaign with Campaign.query.get and calls the       *)
(* engine when the status it read is one of `proceed`; otherwise it        *)
(* reports and returns.  The query can raise.                              *)
(***************************************************************************)
CallerLoads(w, call, proceed, target) ==
    /\ pc[w] = "idle"
    /\ \E ok \in BOOLEAN :
         IF ~ok
         THEN /\ pc' = [pc EXCEPT ![w] = RaisedTo(call.wrapped)]
              /\ inv' = [inv EXCEPT ![w] = [call EXCEPT !.result = Failure("store"),
                                                         !.store_error = TRUE]]
              /\ sess' = sess
         ELSE LET row == campaigns[call.cid]
                  go  == row.status \in proceed
              IN /\ sess' = [sess EXCEPT ![w] = IF row = NoRow THEN @ ELSE Loaded(@, row)]
                 /\ pc' = [pc EXCEPT ![w] = IF go THEN target ELSE "done"]
                 /\ inv' = [inv EXCEPT ![w] =
                              IF go THEN call
                              ELSE IF row = NoRow
                              THEN [call EXCEPT !.result = Failure("not_found")]
                              ELSE [call EXCEPT !.result = Failure("skipped")]]
    /\ UNCHANGED <<campaigns, email_logs, subscribers, inactive, mail, batch_size, api_key, cancelled>>

(* app.py, POST /campaigns/<id>/send: the route checks the status itself. *)
Route_SendCampaign(w, c) ==
    /\ w = "manual"
    /\ CallerLoads(w, [NoCall EXCEPT !.cid = c], Sendable, "enter")
    /\ jobs' = jobs

(* cli.py, command send --campaign-id c [--test]: no status check. *)
Cli_Send(w, c, t) ==
    /\ w = "manual"
    /\ CallerLoads(w, [NoCall EXCEPT !.cid = c, !.test_mode = t], Statuses, "enter")
    /\ jobs' = jobs

(* cli.py, command test --campaign-id c: send_test_email. *)
Cli_Test(w, c) ==
    /\ w = "manual"
    /\ CallerLoads(w, [NoCall EXCEPT !.cid = c], Statuses, "test")
    /\ jobs' = jobs

(* scheduler.py, scheduled_job_wrapper lines 26-36: runs when the date     *)
(* trigger of the campaign's job fires; the job is gone once it fired.     *)
Scheduled_Job_Wrapper(w, c) ==
    /\ w = "sched"
    /\ c \in jobs
    /\ jobs' = jobs \ {c}
    /\ CallerLoads(w, [NoCall EXCEPT !.cid = c, !.wrapped = TRUE], {"scheduled"}, "enter")

(* One commit of worker w's session, given what the session holds (s) and  *)
(* what the worker does when the commit succeeds (okPc, okInv) or raises   *)
(* (errPc, errInv).  The store may refuse any commit; it always refuses    *)
(* one that violates a constraint.                                         *)
Commit(w, s, okPc, okInv, errPc, errInv) ==
    \E ok \in BOOLEAN :
        IF ok /\ IntegrityOk(s) /\ RowMatched(s, campaigns[inv[w].cid])
        THEN /\ campaigns' = [campaigns EXCEPT ![inv[w].cid] = CommittedRow(s, @)]
             /\ email_logs' = CommittedLogs(s, email_logs)
             /\ sess' = [sess EXCEPT ![w] = Clean(s)]
             /\ pc' = [pc EXCEPT ![w] = okPc]
             /\ inv' = [inv EXCEPT ![w] = [okInv EXCEPT !.wrote = TRUE]]
        ELSE /\ ~ok
             /\ UNCHANGED <<campaigns, email_logs>>
             /\ sess' = [sess EXCEPT ![w] = Clean(s)]
             /\ pc' = [pc EXCEPT ![w] = errPc]
             /\ inv' = [inv EXCEPT ![w] = Unwound(errInv)]

(* EmailSender.__init__: mailer.py reads Config.SENDGRID_API_KEY,          *)
(* mailer_old.py reads Config.MAILERSEND_API_KEY, which config.py defines. *)
KeyFound(engine) == IF engine = "mailer_old" THEN TRUE ELSE api_key

(* An engine without the status check of line 117; C9 must tell it from   *)
(* the real one.                                                           *)
CanSend_Always(st) == TRUE

(* Line 117: the statuses from which send_campaign starts a send. *)
CanSend(st) == st \in Sendable

(***************************************************************************)
(* send_campaign_email: EmailSender() and send_campaign lines 113-123.     *)
(* Campaign.query.get finds the object its caller loaded in the session's  *)
(* identity map, so the status checked is the one the caller read.         *)
(***************************************************************************)
SendCampaign_Enter(w) ==
    /\ pc[w] = "enter"
    /\ UNCHANGED <<subscribers, inactive, mail, batch_size, api_key, jobs, cancelled>>
    /\ IF ~KeyFound(inv[w].engine)
       THEN \* EmailSender.__init__ reads Config.SENDGRID_API_KEY
            /\ pc' = [pc EXCEPT ![w] = RaisedTo(inv[w].wrapped)]
            /\ inv' = [inv EXCEPT ![w].result = Failure("config")]
            /\ UNCHANGED <<campaigns, email_logs, sess>>
       ELSE IF ~CanSend(sess[w].campaign.status)
       THEN /\ pc' = [pc EXCEPT ![w] = RaisedTo(inv[w].wrapped)]
            /\ inv' = [inv EXCEPT ![w].result = Failure("invalid_state")]
            /\ UNCHANGED <<campaigns, email_logs, sess>>
       ELSE LET s == SetAttr(SetAttr(sess[w], "status", "sending"), "sent_at", "utcnow")
            IN Commit(w, s,
                      "load_subs", [inv[w] EXCEPT !.started = TRUE],
                      RaisedTo(inv[w].wrapped), [inv[w] EXCEPT !.result = Failure("store")])

(* Lines 127-128: load the active subscribers, set total_recipients. *)
SendCampaign_LoadSubscribers(w) ==
    /\ pc[w] = "load_subs"
    /\ UNCHANGED <<campaigns, email_logs, subscribers, inactive, mail, batch_size, api_key, jobs, cancelled>>
    /\ \E ok \in BOOLEAN :
        IF ok
        THEN /\ sess' = [sess EXCEPT ![w] =
                            SetAttr(@, "total_recipients", Len(ActiveSubscribers))]
             /\ inv' = [inv EXCEPT ![w].subs = ActiveSubscribers,
                                   ![w].at_load = subscribers]
             /\ pc' = [pc EXCEPT ![w] = "commit_total"]
        ELSE /\ sess' = sess
             /\ inv' = [inv EXCEPT ![w].store_error = TRUE]
             /\ pc' = [pc EXCEPT ![w] = "except"]

(* A test mode that keeps the whole list; C11 must tell it from the real  *)
(* one.                                                                    *)
Recipients_Unsliced(subs, test_mode) == subs

(* Lines 131-133: if test_mode: subscribers = subscribers[:3]. *)
Recipients(subs, test_mode) ==
    IF test_mode THEN SubSeq(subs, 1, Min(TestLimit, Len(subs))) ELSE subs

(* Lines 129-136: commit, the test-mode slice, the counters of the call. *)
SendCampaign_CommitTotal(w) ==
    /\ pc[w] = "commit_total"
    /\ UNCHANGED <<subscribers, inactive, mail, batch_size, api_key, jobs, cancelled>>
    /\ LET list == Recipients(inv[w].subs, inv[w].test_mode)
       IN Commit(w, sess[w],
                 IF Len(list) = 0 THEN "final" ELSE "batch",
                 [inv[w] EXCEPT !.subs = list, !.i = 0, !.pos = 0,
                                !.sent_count = 0, !.failed_count = 0],
                 "except", inv[w])

(* What the provider, the template and the store can do to one attempt:   *)
(*   sent             sg.send returned                                     *)
(*   compose_failed   create_email_message raised, sg.send is not reached  *)
(*   delivery_failed  sg.send raised                                       *)
(*   store_failed     the load of the expired subscriber or campaign       *)
(*                    raised inside the try block (before sg.send) and     *)
(*                    succeeded when the except block read them again      *)
Outcomes == {"sent", "compose_failed", "delivery_failed", "store_failed"}

(* Line 71: sg.send is called once create_email_message has returned. *)
Delivered(o) == o \in {"sent", "delivery_failed"}
Logged(o) == IF o = "sent" THEN "sent" ELSE "failed"

(* A send_single_email that books every attempt as sent; C20 must tell it   *)
(* from the real one.                                                      *)
SendSingleEmail_AlwaysSent(s, sid, cid, o) ==
    SetAttr(Added(s, EmailLog(sid, cid, "sent")),
            "emails_sent", s.campaign.emails_sent + 1)

(* send_single_email on a session whose campaign is loaded: one EmailLog   *)
(* added, one counter of the session's campaign object incremented.        *)
SendSingleEmail(s, sid, cid, o) ==
    IF o = "sent"
    THEN SetAttr(Added(s, EmailLog(sid, cid, "sent")),
                 "emails_sent", s.campaign.emails_sent + 1)
    ELSE SetAttr(Added(s, EmailLog(sid, cid, "failed")),
                 "emails_failed", s.campaign.emails_failed + 1)

(* A loop that gives up at the first failed attempt; C8 must tell it from  *)
(* the real one.                                                           *)
AfterAttempt_AbortOnFailure(o) == IF o = "sent" THEN "batch" ELSE "except"

(* Where the loop of lines 142-153 goes after an attempt: send_single_email *)
(* returned a result, whatever the outcome, and the batch goes on.         *)
AfterAttempt(o) == "batch"

(* A mailer_old.py that does not count the emails it sent; C29 must tell   *)
(* it from the real one.                                                   *)
Old_SendSingleEmail_Uncounted(s, sid, cid, o, id) ==
    IF o = "sent"
    THEN Added(s, [EmailLog(sid, cid, "sent") EXCEPT !.sendgrid_message_id = id])
    ELSE SetAttr(Added(s, EmailLog(sid, cid, "failed")),
                 "emails_failed", s.campaign.emails_failed + 1)

(* mailer_old.py, send_single_email (lines 75-125): the row of a sent      *)
(* email carries response['data']['message_id'] when self.mailer.send()    *)
(* returned a dict, and None otherwise.                                    *)
Old_SendSingleEmail(s, sid, cid, o, id) ==
    IF o = "sent"
    THEN SetAttr(Added(s, [EmailLog(sid, cid, "sent") EXCEPT !.sendgrid_message_id = id]),
                 "emails_sent", s.campaign.emails_sent + 1)
    ELSE SetAttr(Added(s, EmailLog(sid, cid, "failed")),
                 "emails_failed", s.campaign.emails_failed + 1)

(* The message ids a sent email can get from the engine's provider call. *)
MessageIds(engine) == IF engine = "mailer_old" THEN {"mid", NULL} ELSE {"mid"}

(* A loop that waits only after a sent email; C27 must tell it from the    *)
(* real one.                                                               *)
WaitsAfter_SentOnly(o) == IF o = "sent" THEN 1 ELSE 0

(* Line 153: time.sleep(1 / self.rate_limit) follows the if/else on the    *)
(* result, once per attempt.                                               *)
WaitsAfter(o) == 1

(* A loop that stays on a recipient whose attempt failed; C23 must tell it  *)
(* from the real one.                                                      *)
NextPos_RetryFailed(pos, o) == IF o = "sent" THEN pos + 1 ELSE pos

(* Line 142: for subscriber in batch goes on to the next subscriber        *)
(* whatever send_single_email returned.                                    *)
NextPos(pos, o) == pos + 1

(* A loop that takes the whole list as one batch; C24 must tell it from    *)
(* the real one.                                                           *)
BatchEnd_WholeList(w) == Len(inv[w].subs)

(* A loop that asks the store for its next recipient; C28 must tell it     *)
(* from the real one.                                                      *)
BatchRecipient_FromStore(list, pos) ==
    IF pos + 1 <= Len(ActiveSubscribers) THEN ActiveSubscribers[pos + 1]
    ELSE list[pos + 1]

(* Lines 140-143: the loop walks the list that line 127 loaded. *)
BatchRecipient(list, pos) == list[pos + 1]

(* End of the current batch: subscribers[i:i + batch_size]. *)
BatchEnd(w) == Min(inv[w].i + batch_size, Len(inv[w].subs))

(***************************************************************************)
(* Lines 142-153: one recipient of the batch.  Objects are expired by the  *)
(* last commit, so the first attribute read loads them again; the load     *)
(* can raise twice, and then the exception leaves send_single_email.       *)
(***************************************************************************)
SendCampaign_Recipient(w) ==
    /\ pc[w] = "batch"
    /\ inv[w].pos < BatchEnd(w)
    /\ UNCHANGED <<campaigns, email_logs, subscribers, inactive, mail, batch_size, api_key, jobs, cancelled>>
    /\ LET sid == BatchRecipient(inv[w].subs, inv[w].pos)
           cid == inv[w].cid
       IN \/ \E o \in Outcomes, id \in MessageIds(inv[w].engine) :
               \* the load of an object whose row is gone raises every time
               /\ ~(sess[w].expired /\ campaigns[cid] = NoRow)
               /\ o # "sent" => id = "mid"
               /\ sess' = [sess EXCEPT ![w] =
                    IF inv[w].engine = "mailer_old"
                    THEN Old_SendSingleEmail(Refreshed(@, campaigns[cid]), sid, cid, o, id)
                    ELSE SendSingleEmail(Refreshed(@, campaigns[cid]), sid, cid, o)]
               /\ inv' = [inv EXCEPT
                    ![w].attempts = Append(@, [subscriber |-> sid, status |-> Logged(o)]),
                    ![w].last = o,
                    ![w].called = Delivered(o),
                    ![w].sent_count = IF o = "sent" THEN @ + 1 ELSE @,
                    ![w].failed_count = IF o = "sent" THEN @ ELSE @ + 1,
                    ![w].pos = NextPos(@, o),
                    ![w].waits = @ + WaitsAfter(o),
                    ![w].store_error = @ \/ o = "store_failed"]
               /\ pc' = [pc EXCEPT ![w] = AfterAttempt(o)]
          \/ /\ sess' = sess
             /\ inv' = [inv EXCEPT ![w] = Unwound(@)]
             /\ pc' = [pc EXCEPT ![w] = "except"]

(* A loop that pauses after every batch; C26 must tell it from the real    *)
(* one.                                                                    *)
PauseFollows_EveryBatch(i, size, n) == TRUE

(* Line 159: if i + self.batch_size < len(subscribers): time.sleep(2). *)
PauseFollows(i, size, n) == i + size < n

(* Lines 155-160: commit the batch, pause when another batch follows;      *)
(* range(0, len(subscribers), batch_size) of line 139 gives the next i.    *)
SendCampaign_CommitBatch(w) ==
    /\ pc[w] = "batch"
    /\ inv[w].pos = BatchEnd(w)
    /\ UNCHANGED <<subscribers, inactive, mail, batch_size, api_key, jobs, cancelled>>
    /\ LET more == inv[w].i + batch_size < Len(inv[w].subs)
       IN Commit(w, sess[w],
                 IF more THEN "batch" ELSE "final",
                 [inv[w] EXCEPT !.i = @ + batch_size,
                                !.pauses =
                                    IF PauseFollows(inv[w].i, batch_size, Len(inv[w].subs))
                                    THEN @ + 1 ELSE @],
                 "except", inv[w])

(* The status send_campaign chooses at lines 163-166. *)
FinalStatus(failed_count) ==
    IF failed_count = 0 THEN "completed" ELSE "completed_with_errors"

(* Lines 162-175. *)
SendCampaign_Finalize(w) ==
    /\ pc[w] = "final"
    /\ UNCHANGED <<subscribers, inactive, mail, batch_size, api_key, jobs, cancelled>>
    /\ Commit(w, SetAttr(sess[w], "status", FinalStatus(inv[w].failed_count)),
              "done",
              [inv[w] EXCEPT !.result = Success(inv[w].sent_count,
                                  inv[w].failed_count, Len(inv[w].subs))],
              "except", inv[w])

(* Line 179. *)
ExceptStatus == "failed"

(* Lines 177-181: mark the campaign failed, commit, raise.  When the       *)
(* commit raises, its exception leaves the handler instead.                *)
SendCampaign_Except(w) ==
    /\ pc[w] = "except"
    /\ UNCHANGED <<subscribers, inactive, mail, batch_size, api_key, jobs, cancelled>>
    /\ Commit(w, SetAttr(sess[w], "status", ExceptStatus),
              RaisedTo(inv[w].wrapped), [inv[w] EXCEPT !.result = Failure("send_failed")],
              RaisedTo(inv[w].wrapped), [inv[w] EXCEPT !.result = Failure("store")])

(***************************************************************************)
(* scheduler.py lines 37-46: the wrapper's except clause.  Campaign.query  *)
(* .get reads the store unless the session holds the unexpired object;     *)
(* a failure of the read or of the commit is swallowed (except: pass).     *)
(***************************************************************************)
Wrapper_Except(w) ==
    /\ pc[w] = "job_except"
    /\ UNCHANGED <<subscribers, inactive, mail, batch_size, api_key, jobs, cancelled>>
    /\ LET read == ~sess[w].loaded \/ sess[w].expired
           row  == campaigns[inv[w].cid]
           done == [inv[w] EXCEPT !.result.error = "job_error"]
       IN \/ /\ read
             /\ pc' = [pc EXCEPT ![w] = "done"]
             /\ inv' = [inv EXCEPT ![w] = [done EXCEPT !.store_error = TRUE]]
             /\ sess' = sess
             /\ UNCHANGED <<campaigns, email_logs>>
          \/ /\ read /\ row = NoRow      \* query.get returns None
             /\ pc' = [pc EXCEPT ![w] = "done"]
             /\ inv' = [inv EXCEPT ![w] = done]
             /\ sess' = sess
             /\ UNCHANGED <<campaigns, email_logs>>
          \/ /\ ~(read /\ row = NoRow)
             /\ LET s == IF read
                         THEN Refreshed([sess[w] EXCEPT !.loaded = TRUE,
                                                        !.expired = TRUE], row)
                         ELSE sess[w]
                IN Commit(w, SetAttr(s, "status", "failed"),
                          "done", done, "done", done)

(***************************************************************************)
(* send_test_email, lines 183-203: a Subscriber that is never added to     *)
(* the session (its id is None) goes through send_single_email; nothing    *)
(* is committed.                                                           *)
(***************************************************************************)
SendTestEmail(w) ==
    /\ pc[w] = "test"
    /\ UNCHANGED <<campaigns, email_logs, subscribers, inactive, mail, batch_size, api_key, jobs, cancelled>>
    /\ pc' = [pc EXCEPT ![w] = "done"]
    /\ IF ~api_key
       THEN /\ inv' = [inv EXCEPT ![w].result = Failure("config")]
            /\ sess' = sess
       ELSE \E o \in Outcomes \ {"store_failed"} :
            /\ sess' = [sess EXCEPT ![w] =
                           SendSingleEmail(@, NoId, inv[w].cid, o)]
            /\ inv' = [inv EXCEPT
                 ![w].attempts = Append(@, [subscriber |-> NoId, status |-> Logged(o)]),
                 ![w].last = o,
                 ![w].called = Delivered(o),
                 ![w].result = IF o = "sent" THEN Success(0, 0, 0)
                               ELSE Failure("not_sent")]

(* The caller returns; its application context ends and Flask-SQLAlchemy   *)
(* removes the session, discarding what was not committed.  The worker     *)
(* is then free for its next call; the model lets a worker whose call      *)
(* committed something make no further call.                               *)
Return(w) ==
    /\ pc[w] = "done"
    /\ pc' = [pc EXCEPT ![w] = IF inv[w].wrote THEN "returned" ELSE "idle"]
    /\ sess' = [sess EXCEPT ![w] = NewSession]
    /\ inv' = [inv EXCEPT ![w] = NoCall]
    /\ UNCHANGED <<campaigns, email_logs, subscribers, inactive, mail, batch_size, api_key, jobs, cancelled>>

Next ==
    \E w \in Workers :
        \/ \E c \in CampaignIds : Route_SendCampaign(w, c)
        \/ \E c \in CampaignIds, t \in BOOLEAN : Cli_Send(w, c, t)
        \/ \E c \in CampaignIds : Cli_Test(w, c)
        \/ \E c \in CampaignIds : Scheduled_Job_Wrapper(w, c)
        \/ SendCampaign_Enter(w)
        \/ SendCampaign_LoadSubscribers(w)
        \/ SendCampaign_CommitTotal(w)
        \/ SendCampaign_Recipient(w)
        \/ SendCampaign_CommitBatch(w)
        \/ SendCampaign_Finalize(w)
        \/ SendCampaign_Except(w)
        \/ Wrapper_Except(w)
        \/ SendTestEmail(w)
        \/ Return(w)

Spec == Init /\ [][Next]_vars

(* ----------------------------- properties ----------------------------- *)

(* Worker w is inside send_campaign after the commit of line 123 and       *)
(* before the commit that ends the send.                                   *)
InFlight(w, c) ==
    /\ inv[w].cid = c
    /\ inv[w].started
    /\ pc[w] \in {"load_subs", "commit_total", "batch", "final", "except"}

(* This step is a step of worker w. *)
Moved(w) == <<pc[w], inv[w], sess[w]>>' # <<pc[w], inv[w], sess[w]>>

(* Number of committed email_logs rows of campaign c. *)
LogCount(c) ==
    LET S == {r \in BagToSet(email_logs) : r.campaign_id = c}
    IN  BagCardinality([r \in S |-> email_logs[r]])

(* Worker w's send_campaign returns its result dict in this step. *)
Returns(w) == pc[w] = "final" /\ pc'[w] = "done"

(* C1: at most one send invocation per campaign is in flight at any time.  *)
C1_OneSendInFlight ==
    \A c \in CampaignIds :
        Cardinality({w \in Workers : InFlight(w, c)}) <= 1

(* C2: every step that sets a campaign's persisted status to sending       *)
(* starts from a persisted status of draft or scheduled.                   *)
C2_SendingOnlyFromSendable ==
    [][\A c \in CampaignIds :
          (\E w \in Workers : inv[w].cid = c /\ pc[w] = "enter" /\ pc'[w] = "load_subs")
              => campaigns[c].status \in Sendable]_vars

(* C3: the persisted status becomes completed, completed_with_errors or    *)
(* failed only in a step that starts from the persisted status sending.    *)
C3_FinishedOnlyFromSending ==
    [][\A c \in CampaignIds :
          (campaigns'[c].status \in Finished
           /\ campaigns'[c].status # campaigns[c].status)
              => campaigns[c].status = "sending"]_vars

(* C4: once sending has started, emails_sent + emails_failed never         *)
(* exceeds total_recipients.                                               *)
C4_CountersWithinTotal ==
    \A c \in CampaignIds :
        campaigns[c].status \in {"sending"} \cup Finished
            => campaigns[c].emails_sent + campaigns[c].emails_failed
                   <= campaigns[c].total_recipients

(* C5: when a send outside test mode over N active subscribers, K of which *)
(* fail at compose or delivery, returns without an infrastructure error,   *)
(* the campaign has emails_sent = N - K, emails_failed = K, N log rows,    *)
(* and status completed if K = 0, completed_with_errors otherwise.         *)
C5_SendPostcondition ==
    [][\A w \in Workers :
          (Returns(w) /\ ~inv[w].test_mode /\ ~inv[w].store_error)
              => LET N   == Len(inv[w].subs)
                     K   == inv[w].failed_count
                     row == campaigns'[inv[w].cid]
                 IN /\ row.emails_sent = N - K
                    /\ row.emails_failed = K
                    /\ LogCount(inv[w].cid)' = N
                    /\ row.status = IF K = 0 THEN "completed"
                                    ELSE "completed_with_errors"]_vars

(* C6: when a send finishes all batches without an infrastructure error,   *)
(* the status it sets is completed exactly when the campaign's             *)
(* emails_failed counter is 0 at that moment.                              *)
C6_FinalStatusFollowsCounter ==
    [][\A w \in Workers :
          (Returns(w) /\ ~inv[w].store_error)
              => (campaigns'[inv[w].cid].status = "completed"
                    <=> campaigns'[inv[w].cid].emails_failed = 0)]_vars

(* The error of the try block, or of the handler's own commit, leaves      *)
(* send_campaign in this step.                                             *)
Raises(w) == pc[w] = "except" /\ pc'[w] # "except"

(* C7: when an infrastructure error occurs after the campaign was moved   *)
(* to sending, the persisted status is failed before the error reaches    *)
(* the caller; send never raises leaving the persisted status sending.     *)
C7_FailedBeforeRaise ==
    [][\A w \in Workers :
          (Raises(w) /\ inv[w].started)
              => campaigns'[inv[w].cid].status = "failed"]_vars

(* Every recipient of the list has been attempted, in order. *)
AllAttempted(w) ==
    /\ Len(inv[w].attempts) = Len(inv[w].subs)
    /\ \A k \in 1..Len(inv[w].subs) : inv[w].attempts[k].subscriber = inv[w].subs[k]

SomeFailed(w) == \E k \in 1..Len(inv[w].attempts) : inv[w].attempts[k].status = "failed"

(* C8: a recipient whose attempt fails never aborts the campaign: the      *)
(* batch goes on after it, every recipient has been attempted when the     *)
(* send returns, and a send whose only errors were per-recipient ones      *)
(* ends in completed_with_errors, never failed.                            *)
C8_FailureDoesNotAbort ==
    [][\A w \in Workers :
          /\ (pc[w] = "batch" /\ Len(inv'[w].attempts) = Len(inv[w].attempts) + 1)
                => /\ pc'[w] = "batch"
                   /\ inv'[w].pos = inv[w].pos + 1
          /\ (pc[w] # "final" /\ pc'[w] = "final")
                => AllAttempted(w)'
          /\ (Returns(w) /\ SomeFailed(w))
                => /\ AllAttempted(w)'
                   /\ campaigns'[inv[w].cid].status = "completed_with_errors"
                   /\ inv'[w].result.success]_vars

(* A send has returned after a failed attempt was followed by another      *)
(* attempt.                                                                *)
C8_Witness ==
    \E w \in Workers :
        /\ pc[w] = "done"
        /\ inv[w].result.success
        /\ Len(inv[w].attempts) >= 2
        /\ inv[w].attempts[1].status = "failed"
        /\ campaigns[inv[w].cid].status = "completed_with_errors"

C10_TestModeLeavesCampaign ==
    [][\A w \in Workers :
          (Moved(w) /\ inv[w].test_mode)
              => LET old == campaigns[inv[w].cid]
                     new == campaigns'[inv[w].cid]
                 IN /\ new.status = old.status
                    /\ new.emails_sent = old.emails_sent
                    /\ new.emails_failed = old.emails_failed
                    /\ new.total_recipients = old.total_recipients]_vars

(* ------------------------ one caller, longer lists -------------------- *)

(* A draft campaign without a job, sent from the command line only: the    *)
(* subscriber list can be longer than the test-mode slice.                 *)
InitSolo ==
    /\ campaigns = [c \in CampaignIds |-> Campaign("draft")]
    /\ email_logs = EmptyBag
    /\ \E n \in 0..MaxSoloSubs : subscribers = 1..n
    /\ inactive = {}
    /\ mail = NoMail
    /\ batch_size \in 1..MaxBatchSize
    /\ api_key \in BOOLEAN
    /\ jobs = {}
    /\ cancelled = [c \in CampaignIds |-> "never"]
    /\ pc = [w \in Workers |-> "idle"]
    /\ sess = [w \in Workers |-> NewSession]
    /\ inv = [w \in Workers |-> NoCall]

NextSolo ==
    \/ \E c \in CampaignIds, t \in BOOLEAN : Cli_Send("manual", c, t)
    \/ SendCampaign_Enter("manual")
    \/ SendCampaign_LoadSubscribers("manual")
    \/ SendCampaign_CommitTotal("manual")
    \/ SendCampaign_Recipient("manual")
    \/ SendCampaign_CommitBatch("manual")
    \/ SendCampaign_Finalize("manual")
    \/ SendCampaign_Except("manual")
    \/ Return("manual")

SpecSolo == InitSolo /\ [][NextSolo]_vars

(* The subscribers attempted so far by worker w's call, in order. *)
Attempted(w) == [k \in 1..Len(inv[w].attempts) |-> inv[w].attempts[k].subscriber]

(* The first min(3, N) entries of the ordered list of active subscribers. *)
TestPrefix == SubSeq(ActiveSubscribers, 1, Min(3, Cardinality(subscribers)))

(* C11: a test-mode send attempts exactly min(3, N) recipients, the first  *)
(* min(3, N) of the ordered list of the N active subscribers, and no       *)
(* other subscriber.                                                       *)
C11_TestModePrefix ==
    \A w \in Workers :
        inv[w].test_mode
            => /\ Len(Attempted(w)) <= Len(TestPrefix)
               /\ Attempted(w) = SubSeq(TestPrefix, 1, Len(Attempted(w)))
               /\ (pc[w] = "final" \/ (pc[w] = "done" /\ inv[w].result.success))
                     => Attempted(w) = TestPrefix

(* A test-mode send over four active subscribers has returned after three  *)
(* attempts.                                                               *)
C11_Witness ==
    \E w \in Workers :
        /\ inv[w].test_mode
        /\ pc[w] = "done"
        /\ inv[w].result.success
        /\ Cardinality(subscribers) = 4
        /\ Attempted(w) = <<1, 2, 3>>

(* ---------------------- send_test_email on its own -------------------- *)

(* The session send_test_email used is committed afterwards, before the    *)
(* caller's application context ends.  No caller in the repository does    *)
(* this; the step shows what such a commit would write.                    *)
LaterCommit(w) ==
    /\ pc[w] = "done"
    /\ sess[w].dirty # {} \/ sess[w].new # <<>>
    /\ UNCHANGED <<subscribers, inactive, mail, batch_size, api_key, jobs, cancelled>>
    /\ Commit(w, sess[w], "done", inv[w], "done", inv[w])

NextTestMail ==
    \/ \E c \in CampaignIds : Cli_Test("manual", c)
    \/ SendTestEmail("manual")
    \/ LaterCommit("manual")
    \/ Return("manual")

SpecTestMail == Init /\ [][NextTestMail]_vars

(* C12: send_test_email makes at most one delivery attempt and leaves the  *)
(* campaign's status and counters, its log rows and the subscribers as     *)
(* they were, also when its session is committed afterwards.               *)
C12_TestEmailLeavesStore ==
    [][/\ campaigns' = campaigns
       /\ email_logs' = email_logs
       /\ subscribers' = subscribers
       /\ inactive' = inactive
       /\ \A w \in Workers : Len(inv'[w].attempts) <= 1]_vars

(* send_test_email delivered, and the commit of its session was refused.   *)
C12_Witness ==
    \E w \in Workers :
        /\ pc[w] = "done"
        /\ inv[w].result.success
        /\ inv[w].store_error
        /\ sess[w].expired
        /\ campaigns[inv[w].cid].emails_sent = 0
        /\ email_logs = EmptyBag

(* -------------------------- scheduled triggers ------------------------ *)

(* This step belongs to a run of the job wrapper for campaign c that has   *)
(* not moved the campaign to sending itself.                               *)
TriggerStep(w, c) ==
    /\ Moved(w)
    /\ IF pc[w] = "idle"
       THEN inv'[w].wrapped /\ inv'[w].cid = c
       ELSE inv[w].wrapped /\ inv[w].cid = c /\ ~inv[w].started

(* C13: a trigger that fires, or reaches the engine's check, while the     *)
(* campaign's status is not scheduled is a no-op: status, counters and     *)
(* log rows stay as they are and no delivery is attempted.                 *)
C13_FiringOffScheduleIsNoOp ==
    [][\A w \in Workers, c \in CampaignIds :
          (TriggerStep(w, c) /\ campaigns[c].status # "scheduled")
              => /\ campaigns' = campaigns
                 /\ email_logs' = email_logs
                 /\ inv'[w].attempts = <<>>]_vars

(* ------------- deleting, cancelling and testing during a send --------- *)

(* app.py, POST /campaigns/<id>/delete, lines 200-204: get_or_404 and the  *)
(* status check.                                                           *)
Route_DeleteCampaign(w, c) ==
    /\ w = "manual"
    /\ CallerLoads(w, [NoCall EXCEPT !.cid = c], Sendable, "delete")
    /\ jobs' = jobs

(* The log rows left when the rows of campaign c are deleted with it       *)
(* (relationship email_logs, cascade 'all, delete-orphan').                *)
WithoutLogsOf(c, logs) ==
    LET S == {r \in BagToSet(logs) : r.campaign_id # c}
    IN  [r \in S |-> logs[r]]

(* app.py lines 206-207: db.session.delete(campaign), commit.  The DELETE  *)
(* names the row by its key only.                                          *)
DeleteCampaign_Commit(w) ==
    /\ pc[w] = "delete"
    /\ UNCHANGED <<subscribers, inactive, mail, batch_size, api_key, jobs, cancelled>>
    /\ \E ok \in BOOLEAN :
         IF ok
         THEN /\ campaigns' = [campaigns EXCEPT ![inv[w].cid] = NoRow]
              /\ email_logs' = WithoutLogsOf(inv[w].cid, email_logs)
              /\ sess' = [sess EXCEPT ![w] = Clean(@)]
              /\ pc' = [pc EXCEPT ![w] = "done"]
              /\ inv' = [inv EXCEPT ![w].wrote = TRUE,
                                    ![w].result = Success(0, 0, 0)]
         ELSE /\ UNCHANGED <<campaigns, email_logs>>
              /\ sess' = [sess EXCEPT ![w] = Clean(@)]
              /\ pc' = [pc EXCEPT ![w] = "done"]
              /\ inv' = [inv EXCEPT ![w].result = Failure("store"),
                                    ![w].store_error = TRUE]

(* A cancel that leaves the job in place; C17 must tell it from the real   *)
(* one.                                                                    *)
JobsAfterCancel_Kept(c) == jobs

(* scheduler.remove_job('campaign_<c>') *)
JobsAfterCancel(c) == jobs \ {c}

(* scheduler.py, cancel_scheduled_campaign: True when the job was pending  *)
(* and is removed, False when remove_job raises because there is none.     *)
Cancel_Scheduled_Campaign(c) ==
    /\ IF c \in jobs
       THEN /\ jobs' = JobsAfterCancel(c)
            /\ cancelled' = [cancelled EXCEPT ![c] = "removed"]
       ELSE /\ jobs' = jobs
            /\ cancelled[c] = "never"
            /\ cancelled' = [cancelled EXCEPT ![c] = "no_job"]
    /\ UNCHANGED <<campaigns, email_logs, subscribers, inactive, mail, batch_size, api_key,
                   pc, sess, inv>>

(* The scheduler sends; a request thread or command deletes the campaign,  *)
(* cancels its job or sends a test email meanwhile.                        *)
NextAdmin ==
    \/ \E c \in CampaignIds : Route_DeleteCampaign("manual", c)
    \/ DeleteCampaign_Commit("manual")
    \/ \E c \in CampaignIds : Cli_Test("manual", c)
    \/ SendTestEmail("manual")
    \/ LaterCommit("manual")
    \/ \E c \in CampaignIds : Cancel_Scheduled_Campaign(c)
    \/ \E c \in CampaignIds : Scheduled_Job_Wrapper("sched", c)
    \/ SendCampaign_Enter("sched")
    \/ SendCampaign_LoadSubscribers("sched")
    \/ SendCampaign_CommitTotal("sched")
    \/ SendCampaign_Recipient("sched")
    \/ SendCampaign_CommitBatch("sched")
    \/ SendCampaign_Finalize("sched")
    \/ SendCampaign_Except("sched")
    \/ Wrapper_Except("sched")
    \/ \E w \in Workers : Return(w)

SpecAdmin == Init /\ [][NextAdmin]_vars

(* C14: a campaign is removed only in a step that starts from the          *)
(* persisted status draft or scheduled.                                    *)
C14_DeleteOnlySendable ==
    [][\A c \in CampaignIds :
          (campaigns'[c] = NoRow /\ campaigns[c] # NoRow)
              => campaigns[c].status \in Sendable]_vars

(* C15: while a campaign is in sending, its persisted emails_sent and      *)
(* emails_failed never decrease from one persisted state to the next.      *)
C15_CountersNeverDecrease ==
    [][\A c \in CampaignIds :
          (campaigns[c].status = "sending" /\ campaigns'[c] # NoRow)
              => /\ campaigns'[c].emails_sent >= campaigns[c].emails_sent
                 /\ campaigns'[c].emails_failed >= campaigns[c].emails_failed]_vars

(* The rows that this step adds to table email_logs. *)
RowsCreated ==
    {r \in BagToSet(email_logs') : CopiesIn(r, email_logs') > CopiesIn(r, email_logs)}

(* C16: every row that reaches table email_logs references one subscriber  *)
(* and one campaign that are in the store when the row is created; no row  *)
(* with a missing subscriber or campaign reference is ever stored, also    *)
(* not the one send_test_email builds for its unsaved subscriber.          *)
C16_LogRowsReferenceStoredRows ==
    [][\A r \in RowsCreated :
          /\ r.subscriber_id # NoId
          /\ r.subscriber_id \in subscribers \cup inactive
          /\ r.campaign_id \in CampaignIds
          /\ campaigns[r.campaign_id] # NoRow
          /\ campaigns'[r.campaign_id] # NoRow]_vars

(* The scheduler's send has stored rows, and the commit of the session     *)
(* that holds send_test_email's row was refused.                           *)
C16_Witness ==
    /\ BagCardinality(email_logs) >= 2
    /\ \E w \in Workers :
          /\ pc[w] = "done"
          /\ ~inv[w].wrapped
          /\ inv[w].result.success
          /\ inv[w].store_error
          /\ sess[w].expired

(* C17: once cancel_scheduled_campaign has succeeded for a campaign whose  *)
(* job had not fired, the job never runs and the scheduler never moves     *)
(* the campaign to sending; a cancel, successful or not, changes nothing   *)
(* of a send that is in flight.                                            *)
C17_CancelledJobNeverRuns ==
    [][\A c \in CampaignIds :
          /\ cancelled[c] = "removed"
                => cancelled'[c] = "removed" /\ c \notin jobs'
          /\ \A w \in Workers :
                (inv'[w].wrapped /\ inv'[w].cid = c) => cancelled'[c] # "removed"
          /\ cancelled'[c] # cancelled[c]
                => /\ UNCHANGED <<campaigns, email_logs, pc, sess, inv>>
                   /\ cancelled'[c] = "removed" <=> c \in jobs]_vars

(* The job of a scheduled campaign was cancelled before it fired. *)
C17_Witness ==
    \E c \in CampaignIds :
        /\ cancelled[c] = "removed"
        /\ campaigns[c].status = "scheduled"
        /\ c \notin jobs
        /\ \A w \in Workers : pc[w] = "idle"

(* ------------------------- two campaigns at once ---------------------- *)

PairIds == {1, 2}

(* Campaign 1 is a draft sent from the command line, campaign 2 is         *)
(* scheduled and sent by its job.                                          *)
InitPair ==
    /\ campaigns = [c \in PairIds |-> IF c = 1 THEN Campaign("draft")
                                      ELSE Campaign("scheduled")]
    /\ email_logs = EmptyBag
    /\ \E n \in 0..MaxSubs : subscribers = 1..n
    /\ inactive = {}
    /\ mail = NoMail
    /\ batch_size \in 1..MaxBatchSize
    /\ api_key \in BOOLEAN
    /\ jobs = {2}
    /\ cancelled = [c \in PairIds |-> "never"]
    /\ pc = [w \in Workers |-> "idle"]
    /\ sess = [w \in Workers |-> NewSession]
    /\ inv = [w \in Workers |-> NoCall]

NextPair ==
    \/ Cli_Send("manual", 1, FALSE)
    \/ Scheduled_Job_Wrapper("sched", 2)
    \/ \E w \in Workers :
        \/ SendCampaign_Enter(w)
        \/ SendCampaign_LoadSubscribers(w)
        \/ SendCampaign_CommitTotal(w)
        \/ SendCampaign_Recipient(w)
        \/ SendCampaign_CommitBatch(w)
        \/ SendCampaign_Finalize(w)
        \/ SendCampaign_Except(w)
        \/ Wrapper_Except(w)
        \/ Return(w)

SpecPair == InitPair /\ [][NextPair]_vars

(* The committed log rows of campaign c. *)
LogsOf(c) ==
    LET S == {r \in BagToSet(email_logs) : r.campaign_id = c}
    IN  [r \in S |-> email_logs[r]]

(* The campaign a step of worker w works on. *)
CampaignOf(w) == IF pc[w] = "idle" THEN inv'[w].cid ELSE inv[w].cid

(* The log rows a send alone leaves for its attempts. *)
RowsOfAttempts(w) ==
    SeqToBag([k \in 1..Len(inv[w].attempts) |->
                 [subscriber_id |-> inv[w].attempts[k].subscriber,
                  campaign_id |-> inv[w].cid,
                  status |-> inv[w].attempts[k].status,
                  sendgrid_message_id |->
                      IF inv[w].attempts[k].status = "sent" THEN "mid" ELSE NULL,
                  error_message |->
                      IF inv[w].attempts[k].status = "failed" THEN "err" ELSE NULL]])

(* C18: with sends of two different campaigns in flight, no step of a      *)
(* send writes a field or a log row of the other campaign, and a send      *)
(* that returns leaves its campaign with the status, counters and log      *)
(* rows that follow from its own attempts alone.                           *)
C18_CampaignsDoNotInterfere ==
    [][\A w \in Workers :
          /\ Moved(w)
                => \A c \in PairIds \ {CampaignOf(w)} :
                      campaigns'[c] = campaigns[c] /\ LogsOf(c)' = LogsOf(c)
          /\ Returns(w)
                => LET N   == Len(inv[w].subs)
                       K   == Cardinality({k \in 1..Len(inv[w].attempts) :
                                              inv[w].attempts[k].status = "failed"})
                       row == campaigns'[inv[w].cid]
                   IN /\ Len(inv[w].attempts) = N
                      /\ row.total_recipients = Cardinality(subscribers)
                      /\ row.emails_sent = N - K
                      /\ row.emails_failed = K
                      /\ row.status = IF K = 0 THEN "completed"
                                      ELSE "completed_with_errors"
                      /\ LogsOf(inv[w].cid)' = RowsOfAttempts(w)]_vars

(* One send has returned with a failure among its attempts while the send  *)
(* of the other campaign is in the middle of its list.                     *)
C18_Witness ==
    /\ pc["manual"] = "done"
    /\ inv["manual"].result.success
    /\ campaigns[1].status = "completed_with_errors"
    /\ pc["sched"] = "batch"
    /\ Len(inv["sched"].attempts) >= 1
    /\ campaigns[2].status = "sending"

(* ------------------------- termination of a send ---------------------- *)

(* One caller whose steps are taken as long as they stay possible: the     *)
(* process running send_campaign is not starved.                           *)
SpecSoloFair == InitSolo /\ [][NextSolo]_vars /\ WF_vars(NextSolo)

(* C19: sending is transient: a campaign whose persisted status is         *)
(* sending eventually has the persisted status completed,                  *)
(* completed_with_errors or failed.                                        *)
C19_SendingIsTransient ==
    \A c \in CampaignIds :
        (campaigns[c].status = "sending") ~> (campaigns[c].status \in Finished)

(* ------------------------- one attempt -------------------------------- *)

(* Worker w's send makes one per-recipient attempt in this step. *)
Attempts(w) ==
    /\ pc[w] = "batch"
    /\ Len(inv'[w].attempts) = Len(inv[w].attempts) + 1

(* The campaign object as the attempt of worker w reads it: an expired     *)
(* object shows the stored row.                                            *)
ReadBy(w) ==
    IF sess[w].expired THEN campaigns[inv[w].cid] ELSE sess[w].campaign

(* C20: each per-recipient attempt of a send appends exactly one EmailLog  *)
(* row, for its recipient and campaign, and changes exactly one counter    *)
(* by exactly 1: a sent attempt appends a row `sent` with the message id   *)
(* and adds 1 to emails_sent, a failed attempt appends a row `failed`      *)
(* with an error message and adds 1 to emails_failed, the other counter    *)
(* and the other fields stay; an attempt that fails before delivery makes  *)
(* no Delivery Client call.                                                *)
C20_AttemptLogsAndCounts ==
    [][\A w \in Workers :
          Attempts(w)
             => LET o    == inv'[w].last
                    old  == ReadBy(w)
                    new  == sess'[w].campaign
                    rows == sess'[w].new
                    row  == rows[Len(rows)]
                IN /\ Len(rows) = Len(sess[w].new) + 1
                   /\ SubSeq(rows, 1, Len(rows) - 1) = sess[w].new
                   /\ row.subscriber_id = inv[w].subs[inv[w].pos + 1]
                   /\ row.campaign_id = inv[w].cid
                   /\ new.status = old.status
                   /\ new.total_recipients = old.total_recipients
                   /\ new.sent_at = old.sent_at
                   /\ IF o = "sent"
                      THEN /\ row.status = "sent"
                           /\ row.sendgrid_message_id # NULL
                           /\ row.error_message = NULL
                           /\ new.emails_sent = old.emails_sent + 1
                           /\ new.emails_failed = old.emails_failed
                      ELSE /\ row.status = "failed"
                           /\ row.error_message # NULL
                           /\ row.sendgrid_message_id = NULL
                           /\ new.emails_failed = old.emails_failed + 1
                           /\ new.emails_sent = old.emails_sent
                   /\ inv'[w].called = (o \in {"sent", "delivery_failed"})
                   /\ o \in {"compose_failed", "store_failed"} => ~inv'[w].called]_vars

(* A send has booked a sent attempt and then an attempt that failed at     *)
(* compose, without a Delivery Client call.                                *)
C20_Witness ==
    \E w \in Workers :
        /\ pc[w] = "batch"
        /\ Len(inv[w].attempts) = 2
        /\ inv[w].attempts[1].status = "sent"
        /\ inv[w].last = "compose_failed"
        /\ ~inv[w].called
        /\ Len(sess[w].new) >= 1
        /\ sess[w].new[Len(sess[w].new)].status = "failed"
        /\ sess[w].campaign.emails_failed >= 1

(* ------------------------- batches and pacing ------------------------- *)

(* The attempts of the batch worker w is in, so far. *)
InBatch(w) == inv[w].pos - inv[w].i

(* C21: at every point of a send the log rows and counter increments not   *)
(* yet persisted belong to the batch in progress, at most batch_size       *)
(* attempts: they are the attempts of that batch, and when the first       *)
(* recipient of a batch is about to be attempted nothing is pending.       *)
C21_OneBatchPending ==
    \A w \in Workers :
        pc[w] = "batch"
            => /\ Len(sess[w].new) = InBatch(w)
               /\ InBatch(w) <= batch_size
               /\ \A k \in 1..Len(sess[w].new) :
                     sess[w].new[k].subscriber_id = inv[w].subs[inv[w].i + k]
               /\ InBatch(w) = 0
                     => sess[w].new = <<>> /\ sess[w].dirty = {}
               /\ sess[w].dirty \subseteq {"emails_sent", "emails_failed"}

(* A send is inside its second batch: the rows of the first batch are in   *)
(* the store, one row of the second batch is pending.                      *)
C21_Witness ==
    \E w \in Workers :
        /\ pc[w] = "batch"
        /\ inv[w].i >= batch_size
        /\ InBatch(w) = 1
        /\ Len(sess[w].new) = 1
        /\ LogCount(inv[w].cid) >= inv[w].i

(* C22: in every committed state the counters of a campaign add up to the  *)
(* number of its committed log rows: emails_sent + emails_failed is the    *)
(* number of email_logs rows of the campaign.                              *)
C22_CountersMatchLogs ==
    \A c \in CampaignIds :
        campaigns[c].emails_sent + campaigns[c].emails_failed = LogCount(c)

(* C23: within one send the Delivery Client is called at most once per     *)
(* recipient and a recipient whose attempt failed is not attempted again:  *)
(* the attempts of a send name pairwise different subscribers, one for     *)
(* each position of the list passed so far.                                *)
C23_NoRetry ==
    \A w \in Workers :
        pc[w] \in {"batch", "final"}
            => /\ Len(inv[w].attempts) = inv[w].pos
               /\ Len(inv[w].attempts) <= Len(inv[w].subs)
               /\ \A j, k \in 1..Len(inv[w].attempts) :
                     inv[w].attempts[j].subscriber = inv[w].attempts[k].subscriber
                        => j = k

(* A send went on to its second recipient after the attempt for the first  *)
(* failed; the second attempt failed at delivery.                          *)
C23_Witness ==
    \E w \in Workers :
        /\ pc[w] = "batch"
        /\ Len(inv[w].attempts) = 2
        /\ inv[w].attempts[1] = [subscriber |-> 1, status |-> "failed"]
        /\ inv[w].attempts[2].subscriber = 2
        /\ inv[w].last = "delivery_failed"

(* C24: within one send recipients are attempted one at a time in the      *)
(* order of the loaded list: the attempt for an entry begins when the      *)
(* outcomes of all entries before it are logged, and the first entry of a  *)
(* batch is attempted only when the batches before it are committed.       *)
C24_InListOrder ==
    [][\A w \in Workers :
          Attempts(w)
             => LET n    == Len(inv[w].attempts)
                    rows == sess[w].new
                IN /\ inv'[w].attempts[n + 1].subscriber = inv[w].subs[n + 1]
                   /\ \A k \in 1..n : inv[w].attempts[k].subscriber = inv[w].subs[k]
                   \* the outcomes of this batch so far are logged, in order
                   /\ n >= inv[w].i
                   /\ n - inv[w].i < batch_size
                   /\ Len(rows) = n - inv[w].i
                   /\ \A k \in 1..Len(rows) :
                         /\ rows[k].subscriber_id = inv[w].subs[inv[w].i + k]
                         /\ rows[k].status = inv[w].attempts[inv[w].i + k].status
                   \* the batches before are committed
                   /\ inv[w].i % batch_size = 0
                   /\ n = inv[w].i => rows = <<>> /\ sess[w].dirty = {}
                   /\ \A k \in 1..inv[w].i :
                         \E r \in BagToSet(email_logs) :
                            /\ r.campaign_id = inv[w].cid
                            /\ r.subscriber_id = inv[w].subs[k]
                            /\ r.status = inv[w].attempts[k].status]_vars

(* The first recipient of the second batch has been attempted after the    *)
(* first batch of two was committed.                                       *)
C24_Witness ==
    \E w \in Workers :
        /\ pc[w] = "batch"
        /\ batch_size = 2
        /\ inv[w].i = 2
        /\ Attempted(w) = <<1, 2, 3>>
        /\ LogCount(inv[w].cid) = 2

(* ------------------------- start of a send ---------------------------- *)

(* C25: the status sending and the send-start timestamp are persisted      *)
(* before the recipient list is loaded and before any Delivery Client      *)
(* call: while a send is past its first commit, and whenever it has made   *)
(* an attempt, the persisted status is neither draft nor scheduled and     *)
(* sent_at is set in the campaign's row.                                   *)
C25_SendingPersistedFirst ==
    \A w \in Workers :
        LET past == pc[w] \in {"load_subs", "commit_total", "batch", "final", "except"}
            list == inv[w].subs # <<>>
            call == inv[w].attempts # <<>> /\ inv[w].attempts[1].subscriber # NoId
        IN  (past \/ list \/ call)
                => /\ campaigns[inv[w].cid].status \notin Sendable
                   /\ campaigns[inv[w].cid] # NoRow
                         => campaigns[inv[w].cid].sent_at # NULL

(* The first Delivery Client call of a send has been made; the store       *)
(* shows the campaign in sending with its start time.                      *)
C25_Witness ==
    \E w \in Workers :
        /\ pc[w] = "batch"
        /\ Len(inv[w].attempts) = 1
        /\ inv[w].called
        /\ campaigns[inv[w].cid].status = "sending"
        /\ campaigns[inv[w].cid].sent_at # NULL
        /\ email_logs = EmptyBag

(* ceil(n / size) *)
Batches(n, size) == (n + size - 1) \div size

(* C26: an inter-batch pause is made after a batch exactly when another    *)
(* batch follows: a send over N recipients with batch size B that returns  *)
(* has made ceil(N/B) - 1 pauses for N >= 1 and none for N = 0, and the    *)
(* commit of the last batch is followed by no pause.                       *)
C26_PauseBetweenBatches ==
    [][\A w \in Workers :
          /\ (pc[w] = "batch" /\ inv'[w].i # inv[w].i /\ pc'[w] \in {"batch", "final"})
                => inv'[w].pauses =
                      inv[w].pauses + (IF pc'[w] = "batch" THEN 1 ELSE 0)
          /\ (pc[w] = "batch" /\ inv'[w].i = inv[w].i /\ pc'[w] = "batch")
                => inv'[w].pauses = inv[w].pauses
          /\ Returns(w)
                => LET N == Len(inv[w].subs)
                   IN  /\ inv'[w].pauses = inv[w].pauses
                       /\ inv[w].pauses =
                            IF N = 0 THEN 0 ELSE Batches(N, batch_size) - 1]_vars

(* Batch size 1 and three recipients: the send has returned after three    *)
(* Delivery Client calls and two pauses.                                   *)
C26_Witness ==
    \E w \in Workers :
        /\ pc[w] = "done"
        /\ inv[w].result.success
        /\ batch_size = 1
        /\ Len(inv[w].subs) = 3
        /\ Len(inv[w].attempts) = 3
        /\ \A k \in 1..3 : inv[w].attempts[k].status = "sent"
        /\ inv[w].pauses = 2

(* C27: within one send a rate-limit wait lies between every two           *)
(* consecutive attempts, whatever the outcome of the earlier one: when an  *)
(* attempt begins, every attempt made before it has been followed by its   *)
(* wait, and the attempt is followed by one wait of its own.               *)
C27_WaitBetweenAttempts ==
    [][\A w \in Workers :
          Attempts(w)
             => /\ inv[w].waits = Len(inv[w].attempts)
                /\ inv'[w].waits = inv[w].waits + 1]_vars

(* Three attempts of one send: the first two failed, the third was sent;   *)
(* three waits were made.                                                  *)
C27_Witness ==
    \E w \in Workers :
        /\ pc[w] = "batch"
        /\ Len(inv[w].attempts) = 3
        /\ inv[w].attempts[1].status = "failed"
        /\ inv[w].attempts[2].status = "failed"
        /\ inv[w].last = "sent"
        /\ inv[w].waits = 3

(* ------------------- subscribers coming and going --------------------- *)

MaxRows == MaxSubs + 1

(* app.py unsubscribe: the subscriber found by its token gets is_active =   *)
(* False, committed in the request's own session.                          *)
Unsubscribe(s) ==
    /\ s \in subscribers
    /\ subscribers' = subscribers \ {s}
    /\ inactive' = inactive \cup {s}
    /\ UNCHANGED <<campaigns, email_logs, mail, batch_size, api_key, jobs, cancelled,
                   pc, sess, inv>>

(* import_subscribers_from_csv with a row for an unknown address: a new    *)
(* subscriber, active by the column default, with the next id.             *)
ImportSubscriber ==
    /\ Cardinality(subscribers \cup inactive) < MaxRows
    /\ subscribers' = subscribers \cup {Cardinality(subscribers \cup inactive) + 1}
    /\ UNCHANGED <<campaigns, email_logs, inactive, mail, batch_size, api_key, jobs,
                   cancelled, pc, sess, inv>>

(* One command-line send while subscribers unsubscribe and are imported. *)
NextChurn ==
    \/ \E c \in CampaignIds, t \in BOOLEAN : Cli_Send("manual", c, t)
    \/ SendCampaign_Enter("manual")
    \/ SendCampaign_LoadSubscribers("manual")
    \/ SendCampaign_CommitTotal("manual")
    \/ SendCampaign_Recipient("manual")
    \/ SendCampaign_CommitBatch("manual")
    \/ SendCampaign_Finalize("manual")
    \/ SendCampaign_Except("manual")
    \/ Return("manual")
    \/ \E s \in 1..MaxRows : Unsubscribe(s)
    \/ ImportSubscriber

SpecChurn == Init /\ [][NextChurn]_vars

(* The send of worker w holds a loaded recipient list. *)
HoldsList(w) ==
    \/ pc[w] \in {"batch", "final"}
    \/ pc[w] = "done" /\ inv[w].result.success /\ inv[w].started

(* C28: the recipient set of a send is fixed when the active subscribers   *)
(* are loaded: the list and total_recipients are those of the subscribers  *)
(* active at the load, every attempt targets the next entry of that list,  *)
(* a subscriber active at load time, and unsubscribes and imports during   *)
(* the send change neither the list nor total_recipients.                  *)
C28_RecipientsFixedAtLoad ==
    [][\A w \in Workers :
          /\ (pc[w] = "load_subs" /\ pc'[w] = "commit_total")
                => /\ inv'[w].at_load = subscribers
                   /\ inv'[w].subs = Ascending(subscribers)
                   /\ sess'[w].campaign.total_recipients = Cardinality(subscribers)
          /\ Attempts(w)
                => LET n == Len(inv[w].attempts)
                   IN  /\ inv'[w].attempts[n + 1].subscriber = inv[w].subs[n + 1]
                       /\ inv'[w].attempts[n + 1].subscriber \in inv[w].at_load
          /\ HoldsList(w)'
                => /\ inv'[w].subs =
                        Recipients(Ascending(inv'[w].at_load), inv'[w].test_mode)
                   /\ campaigns'[inv'[w].cid].total_recipients =
                        Cardinality(inv'[w].at_load)
          /\ (HoldsList(w) /\ HoldsList(w)')
                => /\ inv'[w].subs = inv[w].subs
                   /\ inv'[w].at_load = inv[w].at_load]_vars

(* A send is in the middle of the list of the two subscribers active at    *)
(* its load: both have unsubscribed since and a third was imported; the    *)
(* second entry is still to be attempted.                                  *)
C28_Witness ==
    \E w \in Workers :
        /\ pc[w] = "batch"
        /\ inv[w].at_load = {1, 2}
        /\ Attempted(w) = <<1>>
        /\ inv[w].pos < Len(inv[w].subs)
        /\ subscribers = {3}
        /\ inactive = {1, 2}
        /\ campaigns[inv[w].cid].total_recipients = 2

(* --------------------- mailer.py beside mailer_old.py ----------------- *)

(* mailer_old.py, send_campaign_email (lines 221-224), called the way the  *)
(* command line calls mailer.py's: no caller in the repository imports     *)
(* mailer_old.                                                             *)
Old_Send(w, c) ==
    /\ w = "sched"
    /\ CallerLoads(w, [NoCall EXCEPT !.cid = c, !.engine = "mailer_old"],
                   Statuses, "enter")
    /\ jobs' = jobs

(* Two draft campaigns in one store. *)
InitTwin ==
    /\ campaigns = [c \in PairIds |-> Campaign("draft")]
    /\ email_logs = EmptyBag
    /\ \E n \in 0..MaxSubs : subscribers = 1..n
    /\ inactive = {}
    /\ mail = NoMail
    /\ batch_size \in 1..MaxBatchSize
    /\ api_key \in BOOLEAN
    /\ jobs = {}
    /\ cancelled = [c \in PairIds |-> "never"]
    /\ pc = [w \in Workers |-> "idle"]
    /\ sess = [w \in Workers |-> NewSession]
    /\ inv = [w \in Workers |-> NoCall]

(* Campaign 1 is sent by mailer.py, campaign 2 by mailer_old.py. *)
NextTwin ==
    \/ Cli_Send("manual", 1, FALSE)
    \/ Old_Send("sched", 2)
    \/ \E w \in Workers :
        \/ SendCampaign_Enter(w)
        \/ SendCampaign_LoadSubscribers(w)
        \/ SendCampaign_CommitTotal(w)
        \/ SendCampaign_Recipient(w)
        \/ SendCampaign_CommitBatch(w)
        \/ SendCampaign_Finalize(w)
        \/ SendCampaign_Except(w)
        \/ Return(w)

SpecTwin == InitTwin /\ [][NextTwin]_vars

(* What a reader of the logs of campaign c sees when message ids are left  *)
(* out: recipient and status of each row.                                  *)
LogStatuses(c) ==
    LET B == LogsOf(c)
        S == {<<r.subscriber_id, r.status>> : r \in BagToSet(B)}
    IN  [p \in S |-> BagCardinality(
            [r \in {x \in BagToSet(B) : <<x.subscriber_id, x.status>> = p} |-> B[r]])]

(* Both sends are at the same point after the same per-recipient outcomes  *)
(* and no refusal of the store.                                            *)
SameRun ==
    /\ pc["manual"] = pc["sched"]
    /\ pc["manual"] \in {"load_subs", "commit_total", "batch", "final", "done"}
    /\ inv["manual"].started /\ inv["sched"].started
    /\ inv["manual"].engine = "mailer" /\ inv["sched"].engine = "mailer_old"
    /\ ~inv["manual"].store_error /\ ~inv["sched"].store_error
    /\ inv["manual"].attempts = inv["sched"].attempts
    /\ inv["manual"].i = inv["sched"].i
    /\ pc["manual"] = "done"
          => inv["manual"].result.success /\ inv["sched"].result.success

(* C29: mailer.py and mailer_old.py are equivalent as dispatch engines:    *)
(* each attempt with a given outcome is booked by both as the same status  *)
(* and the same counter, and sends that went through the same outcomes     *)
(* show the same campaign status and counters, the same number and         *)
(* statuses of log rows and the same result.                               *)
C29_EnginesAgree ==
    /\ [](SameRun
            => /\ campaigns[1] = campaigns[2]
               /\ LogStatuses(1) = LogStatuses(2)
               /\ inv["manual"].subs = inv["sched"].subs
               /\ inv["manual"].sent_count = inv["sched"].sent_count
               /\ inv["manual"].failed_count = inv["sched"].failed_count
               /\ inv["manual"].result = inv["sched"].result
               /\ Len(sess["manual"].new) = Len(sess["sched"].new)
               /\ \A k \in 1..Len(sess["manual"].new) :
                     sess["manual"].new[k].status = sess["sched"].new[k].status)
    /\ [][\A w \in Workers :
            Attempts(w)
               => LET n   == Len(inv[w].attempts)
                      st  == IF inv'[w].last = "sent" THEN "sent" ELSE "failed"
                      old == ReadBy(w)
                      new == sess'[w].campaign
                  IN /\ inv'[w].attempts[n + 1].status = st
                     /\ sess'[w].new[Len(sess'[w].new)].status = st
                     /\ new.emails_sent =
                           old.emails_sent + (IF st = "sent" THEN 1 ELSE 0)
                     /\ new.emails_failed =
                           old.emails_failed + (IF st = "sent" THEN 0 ELSE 1)
                     /\ inv'[w].sent_count =
                           inv[w].sent_count + (IF st = "sent" THEN 1 ELSE 0)
                     /\ inv'[w].failed_count =
                           inv[w].failed_count + (IF st = "sent" THEN 0 ELSE 1)]_vars

(* Both engines have returned after the same two outcomes, one of them a   *)
(* failure; a sent row of mailer_old.py carries no message id.             *)
C29_Witness ==
    /\ SameRun
    /\ pc["manual"] = "done"
    /\ Len(inv["manual"].attempts) = 2
    /\ campaigns[1].status = "completed_with_errors"
    /\ campaigns[2] = campaigns[1]
    /\ \E r \in BagToSet(email_logs) :
          r.campaign_id = 2 /\ r.status = "sent" /\ r.sendgrid_message_id = NULL

(* ------------------------------ Composer ------------------------------ *)

(* Characters of addresses: a lower-case letter, an upper-case letter and  *)
(* the at sign; a display name is empty or one letter.                     *)
Chars == {"a", "A", "@"}
Addresses == UNION {[1..n -> Chars] : n \in 0..MaxEmailLen}
Names == {<<>>, <<"N">>}

(* str.lower() *)
Lower(e) == [k \in 1..Len(e) |-> IF e[k] = "A" THEN "a" ELSE e[k]]

(* An address taken for the whole of its own local part; C30 must tell it  *)
(* from the real one.                                                      *)
LocalPart_Whole(e) == e

(* subscriber.email.split('@')[0] *)
RECURSIVE LocalPart(_)
LocalPart(e) ==
    IF e = <<>> \/ Head(e) = "@" THEN <<>>
    ELSE <<Head(e)>> \o LocalPart(Tail(e))

(* Line 31: subscriber.name or subscriber.email.split('@')[0]; None and    *)
(* the empty string are both false.                                        *)
ContextName(has_name, name, email) ==
    IF has_name /\ name # <<>> THEN name ELSE LocalPart(email)

(* The template `Hi {{name}}`, and jinja2's Template.render on it with the *)
(* context of line 30.                                                     *)
HiTemplate == <<"H", "i", " ", "{{name}}">>
RECURSIVE Render(_, _)
Render(template, name) ==
    IF template = <<>> THEN <<>>
    ELSE (IF Head(template) = "{{name}}" THEN name ELSE <<Head(template)>>)
            \o Render(Tail(template), name)

(* A subscriber is about to be created from an address and a name. *)
InitCompose ==
    /\ campaigns = [c \in CampaignIds |-> Campaign("draft")]
    /\ email_logs = EmptyBag
    /\ subscribers = {}
    /\ inactive = {}
    /\ \E e \in Addresses, h \in BOOLEAN, n \in Names :
          /\ ~h => n = <<>>
          /\ mail = [NoMail EXCEPT !.step = "input", !.input = e,
                                   !.has_name = h, !.name = n]
    /\ batch_size = 1
    /\ api_key = TRUE
    /\ jobs = {}
    /\ cancelled = [c \in CampaignIds |-> "never"]
    /\ pc = [w \in Workers |-> "idle"]
    /\ sess = [w \in Workers |-> NewSession]
    /\ inv = [w \in Workers |-> NoCall]

(* models.py, Subscriber.__init__: self.email = email.lower(). *)
Subscriber_Init ==
    /\ mail.step = "input"
    /\ mail' = [mail EXCEPT !.step = "stored", !.email = Lower(mail.input)]
    /\ UNCHANGED <<campaigns, email_logs, subscribers, inactive, batch_size, api_key,
                   jobs, cancelled, pc, sess, inv>>

(* mailer.py, create_email_message lines 27-45: the render context and     *)
(* the rendered template.                                                  *)
CreateEmailMessage ==
    /\ mail.step = "stored"
    /\ LET name == ContextName(mail.has_name, mail.name, mail.email)
       IN  mail' = [mail EXCEPT !.step = "composed", !.context_name = name,
                                !.html = Render(HiTemplate, name)]
    /\ UNCHANGED <<campaigns, email_logs, subscribers, inactive, batch_size, api_key,
                   jobs, cancelled, pc, sess, inv>>

NextCompose == Subscriber_Init \/ CreateEmailMessage

SpecCompose == InitCompose /\ [][NextCompose]_vars

(* p is the part of address e before its first at sign. *)
BeforeFirstAt(p, e) ==
    \E k \in 0..Len(e) :
        /\ p = SubSeq(e, 1, k)
        /\ \A j \in 1..k : e[j] # "@"
        /\ k = Len(e) \/ e[k + 1] = "@"

(* C30: the name in the render context is the subscriber's display name    *)
(* when one is set and otherwise the part of the subscriber's address      *)
(* before the first at sign, and `Hi {{name}}` renders to Hi and that      *)
(* name.                                                                   *)
C30_ContextName ==
    mail.step = "composed"
        => /\ IF mail.has_name /\ mail.name # <<>>
              THEN mail.context_name = mail.name
              ELSE BeforeFirstAt(mail.context_name, mail.email)
           /\ mail.html = <<"H", "i", " ">> \o mail.context_name

(* A subscriber without a name and with two at signs in the address:       *)
(* `Hi {{name}}` has become Hi a.                                         *)
C30_Witness ==
    /\ mail.step = "composed"
    /\ ~mail.has_name
    /\ mail.input = <<"A", "@", "@">>
    /\ mail.email = <<"a", "@", "@">>
    /\ mail.html = <<"H", "i", " ", "a">>
=============================================================================
